---- MODULE Spec2Model ----
(***************************************************************************)
(* Verification model of the holder-snapshot tooling:                      *)
(*   eth.py / abstract.py  find_deployment_block, fetch_logs_in_chunks and *)
(*                         the replay loop of main()                       *)
(*   app.py                fetch_via_logs, fetch_my_tokens, claim_points   *)
(* Each component is a state machine of its own (SpecLocate, SpecScan,     *)
(* SpecLedger, SpecApp, SpecTokens, SpecClaim); SpecPipeline runs the      *)
(* whole of main() and of fetch_via_logs over the modelled chain. The      *)
(* variables of the components a specification does not run stay at their  *)
(* idle values.                                                            *)
(***************************************************************************)
EXTENDS Integers, Sequences, FiniteSets, TLC

VARIABLES
    \* find_deployment_block (eth.py)
    high, codeAt, gone, lo, hi, nq, lpc,
    \* fetch_logs_in_chunks (eth.py, abstract.py)
    variant, start, end, current, chunk, to_block, query, logs, spc, outcome, replies,
    \* replay loop of main() (eth.py, abstract.py)
    token_owner, holders, replayed, rpc, files,
    \* event loop of fetch_via_logs (app.py)
    owner, myset, ev,
    \* chunk loop of fetch_via_logs (app.py)
    apc, afrm, alatest, achunk, alogs,
    \* fetch_my_tokens (app.py)
    fpc, fret,
    \* claim_points requests and the two tables they use (app.py)
    cpc, ctokens, claimable, current_points, before, points, token_claims

locVars  == <<high, codeAt, gone, lo, hi, nq, lpc>>
scanVars == <<variant, start, end, current, chunk, to_block, query, logs, spc, outcome, replies>>
ledVars  == <<token_owner, holders, replayed, rpc, files>>
appVars  == <<owner, myset, ev, apc, afrm, alatest, achunk, alogs>>
tokVars  == <<fpc, fret>>
claimVars == <<cpc, ctokens, claimable, current_points, before, points, token_claims>>
webVars  == <<tokVars, claimVars>>
vars     == <<locVars, scanVars, ledVars, appVars, webVars>>

\* ------------------------------------------------------------------ bounds
\* highest block height of the modelled chain
MaxBlock == 4
\* highest upper bound handed to find_deployment_block
MaxHigh == 6
\* number of events a replay consumes
MaxEvents == 2
\* number of distinct token ids of the replay loop (7, 8, ...)
NumTokens == 2
\* width of the token id window of fetch_via_logs (10 .. 10 + MaxSpan)
MaxSpan == 2
\* number of non-zero addresses
NumAddr == 3
\* number of non-zero addresses that send and receive in the logs handed to
\* the replay loops when they run on their own (SpecLedger, SpecApp)
NumParties == 2
\* claim_points requests in flight
NumRequests == 2
\* number of token ids the claiming owner holds (1, 2, ...)
NumClaimTokens == 2

\* --------------------------------------------------------- program constants
INITIAL_CHUNK == 5000
ABSTRACT_CHUNK == 100000
POINTS_PER_TOKEN == 10

Min(a, b) == IF a <= b THEN a ELSE b
Max(a, b) == IF a >= b THEN a ELSE b

\* ------------------------------------------------------------- addresses
\* the all-zero address "0x0000000000000000000000000000000000000000"
ZERO == 0
Addresses == 0 .. NumAddr
Parties == 0 .. NumParties
\* The 20-byte address space, scaled: a topic word is a natural number and its
\* address is what its last 40 hex digits denote.
AddrSpace == NumAddr + 1
AddrOf(word) == word % AddrSpace
\* int(id_t.hex(), 16) / int.from_bytes(topic, "big"): the whole word is the id
TokenOf(word) == word

TRANSFER_SIG == "Transfer(address,address,uint256)"
CONS_SIG == "ConsecutiveTransfer(uint256,uint256,address,address)"
OTHER_SIG == "Approval(address,address,uint256)"

\* A raw log: block number, index in the block, topic words, data word.
Log(b, i, ts, d) == [blockNumber |-> b, logIndex |-> i, topics |-> ts, data |-> d]
TransferLog(b, i, f, t, id) == Log(b, i, <<TRANSFER_SIG, f, t, id>>, 0)
ConsLog(b, i, ft, tt, fa, ta) == Log(b, i, <<CONS_SIG, ft, tt, fa>>, ta)

\* --------------------------------------------------------------- the chain
\* The logs the contract emitted, per block (the node's ledger). Blocks 1..3
\* carry a mint, a transfer and a consecutive mint; every later block carries
\* two transfers, so that a block can hold more than one log.
EmittedLogs(b) ==
    CASE b = 1 -> << TransferLog(1, 0, ZERO, 1, 1) >>
      [] b = 2 -> << TransferLog(2, 0, 1, 2, 1) >>
      [] b = 3 -> << ConsLog(3, 0, 2, 4, ZERO, 3) >>
      [] b >= 4 -> << TransferLog(b, 0, ZERO, 1, 10 + b), TransferLog(b, 1, 1, 2, 10 + b) >>
      [] OTHER -> << >>

\* gone: the blocks at which the contract does not exist (not yet deployed,
\* or destroyed): get_code is empty there and the contract emitted nothing
ChainLogs(b) == IF b \in gone THEN << >> ELSE EmittedLogs(b)

RECURSIVE SelectTopic(_, _)
SelectTopic(s, topic) ==
    IF s = << >> THEN << >>
    ELSE IF Head(s).topics[1] = topic
         THEN << Head(s) >> \o SelectTopic(Tail(s), topic)
         ELSE SelectTopic(Tail(s), topic)

\* w3.eth.get_logs({fromBlock, toBlock, address, topics: [topic]}) when the node
\* serves it: the logs of the blocks fromBlock..toBlock, in (block, index) order.
RECURSIVE GetLogs(_, _, _)
GetLogs(fromBlock, toBlock, topic) ==
    IF fromBlock > toBlock THEN << >>
    ELSE SelectTopic(ChainLogs(fromBlock), topic) \o GetLogs(fromBlock + 1, toBlock, topic)

\* =========================================================================
\* find_deployment_block(w3, address, high)                        (eth.py)
\* =========================================================================
\* w3.eth.get_code(address, block_identifier=mid) == b""
CodeEmpty(mid) == mid \notin codeAt

Mid_Up(l, h) == (l + h + 1) \div 2
Mid(l, h) == (l + h) \div 2

\* lo = mid + 1
LoAfterEmpty_Stay(mid) == mid
LoAfterEmpty(mid) == mid + 1

\* hi = mid
HiAfterCode_Below(mid) == mid - 1
HiAfterCode(mid) == mid

LocIdle ==
    /\ high = 0 /\ codeAt = {} /\ gone = {} /\ lo = 0 /\ hi = 0 /\ nq = 0 /\ lpc = "idle"

LocInit ==
    /\ high \in 0 .. MaxHigh
    /\ codeAt \in SUBSET (0 .. high)
    /\ gone = {}
    /\ lo = 0
    /\ hi = high
    /\ nq = 0
    /\ lpc = "search"

\* one iteration of `while lo < hi`
LocProbe ==
    /\ lpc = "search"
    /\ lo < hi
    /\ LET mid == Mid(lo, hi) IN
         IF CodeEmpty(mid)
         THEN lo' = LoAfterEmpty(mid) /\ hi' = hi
         ELSE hi' = HiAfterCode(mid) /\ lo' = lo
    /\ nq' = nq + 1
    /\ UNCHANGED <<high, codeAt, gone, lpc>>

\* loop exit and `return lo`
LocReturn ==
    /\ lpc = "search"
    /\ ~(lo < hi)
    /\ lpc' = "found"
    /\ UNCHANGED <<high, codeAt, gone, lo, hi, nq>>

\* =========================================================================
\* fetch_logs_in_chunks(w3, address, topic, start, end)   (eth.py, abstract.py)
\* =========================================================================
Variants == {"eth", "abstract"}

\* What one get_logs call can end in:
\*   ok         the batch is returned
\*   too_large  Web3RPCError whose message holds "more than" (size limit)
\*   rpc_other  Web3RPCError with any other message (auth, malformed request)
\*   transient  HTTPError, ConnectionError or ProtocolError
\*   other      any other exception
Outcomes == {"ok", "too_large", "rpc_other", "transient", "other"}
Failures == Outcomes \ {"ok"}

InitialChunk(v) == IF v = "eth" THEN INITIAL_CHUNK ELSE ABSTRACT_CHUNK

ToBlock(cur, c, e) == Min(cur + c - 1, e)

\* current = to_block + 1
NextCursor_Stay(tb) == tb
NextCursor_Skip(tb) == tb + 2
NextCursor(tb) == tb + 1

\* the except clause that takes the failure, and halves the chunk
IsCaught_RpcOnly(v, o) ==
    IF v = "eth" THEN o \in {"too_large", "rpc_other"} ELSE o = "too_large"
IsCaught(v, o) ==
    IF v = "eth" THEN o \in {"too_large", "rpc_other", "transient"}
    ELSE o = "too_large"

ShrunkChunk_Floor2(c) == Max(c \div 2, 2)
ShrunkChunk_NoFloor(c) == c \div 2
ShrunkChunk(c) == Max(c \div 2, 1)

\* eth.py grows the chunk back after a success, abstract.py leaves it
GrownChunk_NoCap(v, c) == IF v = "eth" THEN c * 2 ELSE c
GrownChunk(v, c) == IF v = "eth" THEN Min(c * 2, INITIAL_CHUNK) ELSE c

ScanIdle ==
    /\ variant = "eth" /\ start = 0 /\ end = 0 /\ current = 0 /\ chunk = 0
    /\ to_block = 0 /\ query = <<0, 0>> /\ logs = << >> /\ spc = "idle"
    /\ outcome = "none" /\ replies = {}

ScanInit ==
    /\ variant \in Variants
    /\ start \in 0 .. MaxBlock
    /\ end \in 0 .. MaxBlock
    /\ logs = << >>
    /\ current = start
    /\ chunk = InitialChunk(variant)
    /\ to_block = 0
    /\ query = <<0, 0>>
    /\ spc = "loop"
    /\ outcome = "none"
    /\ replies = {}

\* `while current <= end`: compute to_block and send the query
ScanIssue ==
    /\ spc = "loop"
    /\ current <= end
    /\ to_block' = ToBlock(current, chunk, end)
    /\ query' = <<current, to_block'>>
    /\ spc' = "await"
    /\ UNCHANGED <<variant, start, end, current, chunk, logs, outcome, replies>>

\* the loop condition fails: `return logs`
ScanReturn ==
    /\ spc = "loop"
    /\ ~(current <= end)
    /\ spc' = "done"
    /\ UNCHANGED <<variant, start, end, current, chunk, to_block, query, logs, outcome, replies>>

\* get_logs returns the batch
ScanSuccess ==
    /\ spc = "await"
    /\ logs' = logs \o GetLogs(query[1], query[2], TRANSFER_SIG)
    /\ current' = NextCursor(to_block)
    /\ chunk' = GrownChunk(variant, chunk)
    /\ outcome' = "ok"
    /\ replies' = replies \cup {"ok"}
    /\ spc' = "loop"
    /\ UNCHANGED <<variant, start, end, to_block, query>>

\* get_logs raises and the except clause takes it: halve and go round again
ScanCaught ==
    /\ spc = "await"
    /\ \E o \in Failures :
         /\ IsCaught(variant, o)
         /\ outcome' = o
         /\ replies' = replies \cup {o}
    /\ chunk' = ShrunkChunk(chunk)
    /\ spc' = "loop"
    /\ UNCHANGED <<variant, start, end, current, to_block, query, logs>>

\* get_logs raises and nothing takes it (or abstract.py re-raises)
ScanRaise ==
    /\ spc = "await"
    /\ \E o \in Failures :
         /\ ~IsCaught(variant, o)
         /\ outcome' = o
         /\ replies' = replies \cup {o}
    /\ spc' = "raised"
    /\ UNCHANGED <<variant, start, end, current, chunk, to_block, query, logs>>

\* =========================================================================
\* the replay loop of main()                              (eth.py, abstract.py)
\* =========================================================================
Tokens == 7 .. (6 + NumTokens)

\* token_owner.get(tid) == frm
OwnerIs(own, tid, frm) == tid \in DOMAIN own /\ own[tid] = frm

\* token_owner[tid] = to
SetOwner(own, tid, to) ==
    [x \in (DOMAIN own) \cup {tid} |-> IF x = tid THEN to ELSE own[x]]

\* if frm != zero: if token_owner.get(tid) == frm: holders[frm].discard(tid)
Discarded_FromOwner(own, hold, frm, tid) ==
    IF frm # ZERO /\ tid \in DOMAIN own
    THEN [hold EXCEPT ![own[tid]] = @ \ {tid}]
    ELSE hold
Discarded(own, hold, frm, tid) ==
    IF frm # ZERO /\ OwnerIs(own, tid, frm)
    THEN [hold EXCEPT ![frm] = @ \ {tid}]
    ELSE hold

\* holders[to].add(tid)
Added_Replace(hold, to, tid) == [hold EXCEPT ![to] = {tid}]
Added(hold, to, tid) == [hold EXCEPT ![to] = @ \cup {tid}]

\* result = [h for h, toks in holders.items() if toks]
Result(hold) == {h \in DOMAIN hold : hold[h] # {}}

RECURSIVE Sorted(_)
Sorted(S) ==
    IF S = {} THEN << >>
    ELSE LET m == CHOOSE x \in S : \A y \in S : x <= y
         IN << m >> \o Sorted(S \ {m})

\* what main() writes: the sorted holder lines of HOLDERS_FILE and the number
\* of COUNT_FILE, count = len(result); << >> while nothing is written
WrittenFiles(hold) == << Sorted(Result(hold)), Cardinality(Result(hold)) >>

\* the logs a replay may be handed: Transfer logs with the three indexed
\* arguments, and a Transfer log with one topic word missing
WellFormedLogs ==
    {TransferLog(0, 0, f, t, id) : f \in Parties, t \in Parties, id \in Tokens}
ShortLogs == {Log(0, 0, <<TRANSFER_SIG, ZERO, 1>>, 7)}
ReplayLogs == WellFormedLogs \cup ShortLogs

LedgerIdle ==
    /\ token_owner = << >> /\ holders = [a \in Addresses |-> {}]
    /\ replayed = << >> /\ rpc = "idle" /\ files = << >>

\* token_owner = {}; holders = defaultdict(set)
LedgerInit ==
    /\ token_owner = << >>
    /\ holders = [a \in Addresses |-> {}]
    /\ replayed = << >>
    /\ rpc = "replay"
    /\ files = << >>

\* one iteration of `for log in logs` on a log that unpacks
ReplayApply ==
    /\ rpc = "replay"
    /\ Len(replayed) < MaxEvents
    /\ \E log \in ReplayLogs :
         /\ Len(log.topics) = 4
         /\ LET frm == AddrOf(log.topics[2])
                to  == AddrOf(log.topics[3])
                tid == TokenOf(log.topics[4])
            IN /\ token_owner' = SetOwner(token_owner, tid, to)
               /\ holders' = Added(Discarded(token_owner, holders, frm, tid), to, tid)
         /\ replayed' = Append(replayed, log)
    /\ UNCHANGED <<rpc, files>>

\* `_, from_t, to_t, id_t = log["topics"]` raises ValueError: main() dies
ReplayUnpackError ==
    /\ rpc = "replay"
    /\ Len(replayed) < MaxEvents
    /\ \E log \in ReplayLogs :
         /\ Len(log.topics) # 4
         /\ replayed' = Append(replayed, log)
    /\ rpc' = "crashed"
    /\ UNCHANGED <<token_owner, holders, files>>

\* the list is exhausted: result and count are computed and written
ReplayFinish ==
    /\ rpc = "replay"
    /\ rpc' = "done"
    /\ files' = WrittenFiles(holders)
    /\ UNCHANGED <<token_owner, holders, replayed>>

\* =========================================================================
\* the event loop of fetch_via_logs(c_addr, owner)                   (app.py)
\* =========================================================================
AppTokens == 10 .. (10 + MaxSpan)

\* range(ft, tt+1)
IdRange_Exclusive(ft, tt) == ft .. (tt - 1)
IdRange(ft, tt) == ft .. tt

\* the Transfer branch: add when to is the owner, then discard when from is
AfterTransfer(set, own, frm_a, to_a, tid) ==
    LET added == IF to_a = own THEN set \cup {tid} ELSE set
    IN IF frm_a = own THEN added \ {tid} ELSE added

\* the ConsecutiveTransfer branch: update(range) when ta is the owner, then
\* discard every id of the range when fa is
AfterConsecutive(set, own, ft, tt, fa, ta) ==
    LET added == IF ta = own THEN set \cup IdRange(ft, tt) ELSE set
    IN IF fa = own THEN {x \in added : x \notin IdRange(ft, tt)} ELSE added

AppLogs ==
    {TransferLog(0, 0, f, t, id) : f \in Parties, t \in Parties, id \in AppTokens}
    \cup {ConsLog(0, 0, ft, tt, fa, ta) :
            ft \in AppTokens, tt \in AppTokens, fa \in Parties, ta \in Parties}
    \cup {Log(0, 0, <<OTHER_SIG, 1, 2>>, 0)}

NoLog == Log(0, 0, << >>, 0)

\* the chunk loop of fetch_via_logs is not running
AppLoopIdle ==
    apc = "idle" /\ afrm = 0 /\ alatest = 0 /\ achunk = 0 /\ alogs = << >>
loopVars == <<apc, afrm, alatest, achunk, alogs>>

AppIdle == owner = ZERO /\ myset = {} /\ ev = NoLog /\ AppLoopIdle

\* fetch_my_tokens and claim_points not running, the tables empty
TokIdle == fpc = "idle" /\ fret = << >>
Requests == 1 .. NumRequests
ClaimIdle ==
    /\ cpc = [r \in Requests |-> "idle"]
    /\ ctokens = [r \in Requests |-> {}]
    /\ claimable = [r \in Requests |-> {}]
    /\ current_points = [r \in Requests |-> 0]
    /\ before = [r \in Requests |-> 0]
    /\ points = 0
    /\ token_claims = {}
WebIdle == TokIdle /\ ClaimIdle

\* owner_lc = owner.lower(); myset = set()
AppInit ==
    /\ owner \in Parties
    /\ myset = {}
    /\ ev = NoLog
    /\ AppLoopIdle

\* one iteration of `for ev in logs`, sig == TRANSFER_SIG
AppTransfer ==
    \E log \in AppLogs :
        /\ log.topics[1] = TRANSFER_SIG
        /\ myset' = AfterTransfer(myset, owner, AddrOf(log.topics[2]),
                                  AddrOf(log.topics[3]), TokenOf(log.topics[4]))
        /\ ev' = log
        /\ UNCHANGED <<owner, loopVars>>

\* one iteration of `for ev in logs`, sig == CONS_SIG
AppConsecutive ==
    \E log \in AppLogs :
        /\ log.topics[1] = CONS_SIG
        /\ myset' = AfterConsecutive(myset, owner, TokenOf(log.topics[2]),
                                     TokenOf(log.topics[3]), AddrOf(log.topics[4]),
                                     AddrOf(log.data))
        /\ ev' = log
        /\ UNCHANGED <<owner, loopVars>>

\* one iteration of `for ev in logs`, any other signature: nothing happens
AppOther ==
    \E log \in AppLogs :
        /\ log.topics[1] \notin {TRANSFER_SIG, CONS_SIG}
        /\ ev' = log
        /\ UNCHANGED <<owner, myset, loopVars>>

\* =========================================================================
\* main()                                                 (eth.py, abstract.py)
\* =========================================================================
\* START_BLOCK: abstract.py fixes it at 0 and scans from there; eth.py reads
\* it from the environment and, when it is 0, scans from what
\* find_deployment_block returns.
StartBlocks(v) == IF v = "eth" THEN 0 .. MaxBlock ELSE {0}
Locates(v, sb) == v = "eth" /\ sb = 0

\* the scan's exception reaches main(), which has no handler: only a scan that
\* returned lets main() go on
MayReplay_Always(s) == s \in {"done", "raised"}
MayReplay(s) == s = "done"

\* latest = w3.eth.block_number; start = START_BLOCK
MainInit ==
    /\ variant \in Variants
    /\ end \in 0 .. MaxBlock
    /\ \E sb \in StartBlocks(variant) :
         IF Locates(variant, sb)
         THEN /\ high = end /\ codeAt \in SUBSET (0 .. end)
              /\ gone = (0 .. end) \ codeAt
              /\ lo = 0 /\ hi = end /\ nq = 0 /\ lpc = "search"
              /\ start = 0 /\ current = 0 /\ chunk = 0 /\ spc = "idle"
         ELSE /\ LocIdle
              /\ start = sb /\ current = sb /\ chunk = InitialChunk(variant)
              /\ spc = "loop"
    /\ to_block = 0 /\ query = <<0, 0>> /\ logs = << >>
    /\ outcome = "none" /\ replies = {}
    /\ LedgerIdle
    /\ AppIdle
    /\ WebIdle

\* start = find_deployment_block(w3, addr, latest); fetch_logs_in_chunks starts
MainBeginScan ==
    /\ lpc = "found"
    /\ spc = "idle"
    /\ start' = lo
    /\ current' = lo
    /\ chunk' = InitialChunk(variant)
    /\ spc' = "loop"
    /\ UNCHANGED <<variant, end, to_block, query, logs, outcome, replies>>

\* logs = fetch_logs_in_chunks(...) returned; token_owner = {}; holders = ...
MainBeginReplay ==
    /\ rpc = "idle"
    /\ MayReplay(spc)
    /\ rpc' = "replay"
    /\ UNCHANGED <<token_owner, holders, replayed, files>>

\* one iteration of `for log in logs` over the scanned list
MainApply ==
    /\ rpc = "replay"
    /\ Len(replayed) < Len(logs)
    /\ LET log == logs[Len(replayed) + 1]
           frm == AddrOf(log.topics[2])
           to  == AddrOf(log.topics[3])
           tid == TokenOf(log.topics[4])
       IN /\ Len(log.topics) = 4
          /\ token_owner' = SetOwner(token_owner, tid, to)
          /\ holders' = Added(Discarded(token_owner, holders, frm, tid), to, tid)
          /\ replayed' = Append(replayed, log)
    /\ UNCHANGED <<rpc, files>>

\* the list is exhausted: holders.txt and count.txt are written
MainFinish ==
    /\ rpc = "replay"
    /\ Len(replayed) = Len(logs)
    /\ rpc' = "done"
    /\ files' = WrittenFiles(holders)
    /\ UNCHANGED <<token_owner, holders, replayed>>

\* =========================================================================
\* fetch_via_logs(c_addr, owner, start_block=0, chunk=100_000)       (app.py)
\* =========================================================================
APP_CHUNK == 100000
\* the chunk parameter: the default, and two widths that split the chain
AppChunks == {1, 2, APP_CHUNK}

\* get_logs with topics [None]: every log of the blocks, whatever its signature
RECURSIVE GetAllLogs(_, _)
GetAllLogs(fromBlock, toBlock) ==
    IF fromBlock > toBlock THEN << >>
    ELSE ChainLogs(fromBlock) \o GetAllLogs(fromBlock + 1, toBlock)

\* what one log does to myset
AfterLog(set, own, log) ==
    IF log.topics[1] = TRANSFER_SIG
    THEN AfterTransfer(set, own, AddrOf(log.topics[2]), AddrOf(log.topics[3]),
                       TokenOf(log.topics[4]))
    ELSE IF log.topics[1] = CONS_SIG
    THEN AfterConsecutive(set, own, TokenOf(log.topics[2]), TokenOf(log.topics[3]),
                          AddrOf(log.topics[4]), AddrOf(log.data))
    ELSE set

\* owner_lc = owner.lower(); latest = w3.eth.block_number; myset = set()
AppRunInit ==
    /\ owner \in Addresses
    /\ alatest \in 0 .. MaxBlock
    /\ achunk \in AppChunks
    /\ afrm = 0
    /\ myset = {}
    /\ ev = NoLog
    /\ alogs = << >>
    /\ apc = "loop"

\* the next frm of range(start_block, latest+1, chunk); get_logs returns
AppFetch ==
    /\ apc = "loop"
    /\ afrm <= alatest
    /\ alogs' = GetAllLogs(afrm, Min(afrm + achunk - 1, alatest))
    /\ apc' = "events"
    /\ UNCHANGED <<owner, myset, ev, afrm, alatest, achunk>>

\* get_logs raises: fetch_via_logs has no handler
AppFetchRaise ==
    /\ apc = "loop"
    /\ afrm <= alatest
    /\ apc' = "raised"
    /\ UNCHANGED <<owner, myset, ev, afrm, alatest, achunk, alogs>>

\* one iteration of `for ev in logs`
AppRunEvent ==
    /\ apc = "events"
    /\ alogs # << >>
    /\ myset' = AfterLog(myset, owner, Head(alogs))
    /\ ev' = Head(alogs)
    /\ alogs' = Tail(alogs)
    /\ UNCHANGED <<owner, apc, afrm, alatest, achunk>>

\* the batch is consumed: on to the next frm
AppNextChunk ==
    /\ apc = "events"
    /\ alogs = << >>
    /\ afrm' = afrm + achunk
    /\ apc' = "loop"
    /\ UNCHANGED <<owner, myset, ev, alatest, achunk, alogs>>

\* the range is exhausted: return sorted(myset)
AppReturn ==
    /\ apc = "loop"
    /\ ~(afrm <= alatest)
    /\ apc' = "returned"
    /\ UNCHANGED <<owner, myset, ev, afrm, alatest, achunk, alogs>>

\* myset after the logs of seq, in order
RECURSIVE FoldLogs(_, _, _)
FoldLogs(set, own, seq) ==
    IF seq = << >> THEN set
    ELSE FoldLogs(AfterLog(set, own, Head(seq)), own, Tail(seq))

\* =========================================================================
\* fetch_my_tokens(c_addr, owner)                                    (app.py)
\* =========================================================================
\* what the contract's balanceOf / tokenOfOwnerByIndex report for own at the
\* head of the chain: the tokens the chain's logs leave with own
Enumerated(own, latest) == Sorted(FoldLogs({}, own, GetAllLogs(0, latest)))

\* `except Exception`: where a failed enumeration leads
AfterEnumFailure_Raise == "raised"
AfterEnumFailure == "logs"

\* fetch_my_tokens is entered: fetch_via_enumeration is about to call balanceOf
TokInit ==
    /\ owner \in Addresses
    /\ alatest \in 0 .. MaxBlock
    /\ myset = {} /\ ev = NoLog
    /\ apc = "idle" /\ afrm = 0 /\ achunk = 0 /\ alogs = << >>
    /\ fpc = "balance"
    /\ fret = << >>

\* bal = c.functions.balanceOf(owner).call() returns
EnumBalance ==
    /\ fpc = "balance"
    /\ fpc' = "index"
    /\ UNCHANGED <<fret, appVars>>

\* the next tokenOfOwnerByIndex(owner, i).call() of the list comprehension
EnumToken ==
    /\ fpc = "index"
    /\ Len(fret) < Len(Enumerated(owner, alatest))
    /\ fret' = Append(fret, Enumerated(owner, alatest)[Len(fret) + 1])
    /\ UNCHANGED <<fpc, appVars>>

\* range(bal) is exhausted: fetch_my_tokens returns the list
EnumReturn ==
    /\ fpc = "index"
    /\ Len(fret) = Len(Enumerated(owner, alatest))
    /\ fpc' = "returned"
    /\ UNCHANGED <<fret, appVars>>

\* balanceOf or a tokenOfOwnerByIndex call raises: the except clause calls
\* fetch_via_logs(c_addr, owner), with its default start_block and chunk
EnumFail ==
    /\ \/ fpc = "balance"
       \/ fpc = "index" /\ Len(fret) < Len(Enumerated(owner, alatest))
    /\ fret' = << >>
    /\ fpc' = AfterEnumFailure
    /\ IF AfterEnumFailure = "logs"
       THEN /\ apc' = "loop" /\ afrm' = 0 /\ achunk' = APP_CHUNK
            /\ myset' = {} /\ alogs' = << >>
            /\ UNCHANGED <<owner, ev, alatest>>
       ELSE UNCHANGED appVars

\* return fetch_via_logs(c_addr, owner)
TokLogsReturn ==
    /\ fpc = "logs"
    /\ apc = "returned"
    /\ fret' = Sorted(myset)
    /\ fpc' = "returned"
    /\ UNCHANGED appVars

\* fetch_via_logs raised inside the except clause: fetch_my_tokens raises
TokLogsRaise ==
    /\ fpc = "logs"
    /\ apc = "raised"
    /\ fpc' = "raised"
    /\ UNCHANGED <<fret, appVars>>

\* =========================================================================
\* claim_points                                                      (app.py)
\* =========================================================================
\* =========================================================================
\* claim_points                                                      (app.py)
\* =========================================================================
\* Each request runs claim_points for the one owner whose row of `points` is
\* modelled; the requests fall within one 24-hour window, so a token is on
\* cooldown exactly when token_claims holds a row for it. A step is one call
\* to the database: nothing in claim_points holds a lock or a transaction
\* across two calls, and the server handles requests concurrently.
ClaimTokens == 1 .. NumClaimTokens

\* the responses of a finished request
Failed == {"r400", "r429", "r500"}
Finished == Failed \cup {"r200"}

\* claimable_tokens: the owned tokens with no claim row inside the cooldown
Claimable(tokens, rows) == tokens \ rows

\* new_points = current_points + len(claimable_tokens) * 10
NewPoints(cp, cl) == cp + Cardinality(cl) * POINTS_PER_TOKEN

\* the captcha passes and fetch_my_tokens returns valid tokens
ClaimStart(r) ==
    /\ cpc[r] = "idle"
    /\ \E tokens \in (SUBSET ClaimTokens) \ {{}} :
         ctokens' = [ctokens EXCEPT ![r] = tokens]
    /\ before' = [before EXCEPT ![r] = points]
    /\ cpc' = [cpc EXCEPT ![r] = "select_claims"]
    /\ UNCHANGED <<claimable, current_points, points, token_claims>>

\* invalid captcha, no token, no valid token, or an exception on the way
ClaimReject(r) ==
    /\ cpc[r] = "idle"
    /\ before' = [before EXCEPT ![r] = points]
    /\ cpc' = [cpc EXCEPT ![r] = "r400"]
    /\ UNCHANGED <<ctokens, claimable, current_points, points, token_claims>>

\* select from token_claims, the claimable tokens, and the 429 when none is
ClaimSelectClaims(r) ==
    /\ cpc[r] = "select_claims"
    /\ claimable' = [claimable EXCEPT ![r] = Claimable(ctokens[r], token_claims)]
    /\ cpc' = [cpc EXCEPT ![r] =
                 IF claimable'[r] = {} THEN "r429" ELSE "select_points"]
    /\ UNCHANGED <<ctokens, current_points, before, points, token_claims>>

\* select from points: current_points
ClaimSelectPoints(r) ==
    /\ cpc[r] = "select_points"
    /\ current_points' = [current_points EXCEPT ![r] = points]
    /\ cpc' = [cpc EXCEPT ![r] = "upsert_points"]
    /\ UNCHANGED <<ctokens, claimable, before, points, token_claims>>

\* upsert into points: new_points
ClaimUpsertPoints(r) ==
    /\ cpc[r] = "upsert_points"
    /\ points' = NewPoints(current_points[r], claimable[r])
    /\ cpc' = [cpc EXCEPT ![r] = "upsert_claims"]
    /\ UNCHANGED <<ctokens, claimable, current_points, before, token_claims>>

\* upsert into token_claims, and the success response
ClaimUpsertClaims(r) ==
    /\ cpc[r] = "upsert_claims"
    /\ token_claims' = token_claims \cup claimable[r]
    /\ cpc' = [cpc EXCEPT ![r] = "r200"]
    /\ UNCHANGED <<ctokens, claimable, current_points, before, points>>

\* the upsert into token_claims raises: the inner except returns the 500
ClaimUpsertClaimsFail(r) ==
    /\ cpc[r] = "upsert_claims"
    /\ cpc' = [cpc EXCEPT ![r] = "r500"]
    /\ UNCHANGED <<ctokens, claimable, current_points, before, points, token_claims>>

\* one of the three earlier calls raises: the outer except returns the 400
ClaimRaise(r) ==
    /\ cpc[r] \in {"select_claims", "select_points", "upsert_points"}
    /\ cpc' = [cpc EXCEPT ![r] = "r400"]
    /\ UNCHANGED <<ctokens, claimable, current_points, before, points, token_claims>>

\* =========================================================================
\* specifications
\* =========================================================================
NextLocate ==
    \/ LocProbe /\ UNCHANGED <<scanVars, ledVars, appVars, webVars>>
    \/ LocReturn /\ UNCHANGED <<scanVars, ledVars, appVars, webVars>>
InitLocate == LocInit /\ ScanIdle /\ LedgerIdle /\ AppIdle /\ WebIdle
SpecLocate == InitLocate /\ [][NextLocate]_vars
\* the search is a plain loop; each iteration that is enabled is eventually run
SpecLocateFair == SpecLocate /\ WF_vars(NextLocate)

NextScan ==
    \/ ScanIssue /\ UNCHANGED <<locVars, ledVars, appVars, webVars>>
    \/ ScanReturn /\ UNCHANGED <<locVars, ledVars, appVars, webVars>>
    \/ ScanSuccess /\ UNCHANGED <<locVars, ledVars, appVars, webVars>>
    \/ ScanCaught /\ UNCHANGED <<locVars, ledVars, appVars, webVars>>
    \/ ScanRaise /\ UNCHANGED <<locVars, ledVars, appVars, webVars>>
InitScan == LocIdle /\ ScanInit /\ LedgerIdle /\ AppIdle /\ WebIdle
SpecScan == InitScan /\ [][NextScan]_vars
\* The scan is one thread that is never suspended for good, and every
\* get_logs call returns or raises: the loop always takes its next step.
SpecScanFair == SpecScan /\ WF_vars(NextScan)

NextLedger ==
    \/ ReplayApply /\ UNCHANGED <<locVars, scanVars, appVars, webVars>>
    \/ ReplayUnpackError /\ UNCHANGED <<locVars, scanVars, appVars, webVars>>
    \/ ReplayFinish /\ UNCHANGED <<locVars, scanVars, appVars, webVars>>
InitLedger == LocIdle /\ ScanIdle /\ LedgerInit /\ AppIdle /\ WebIdle
SpecLedger == InitLedger /\ [][NextLedger]_vars

NextApp ==
    \/ AppTransfer /\ UNCHANGED <<locVars, scanVars, ledVars, webVars>>
    \/ AppConsecutive /\ UNCHANGED <<locVars, scanVars, ledVars, webVars>>
    \/ AppOther /\ UNCHANGED <<locVars, scanVars, ledVars, webVars>>
InitApp == LocIdle /\ ScanIdle /\ LedgerIdle /\ AppInit /\ WebIdle
SpecApp == InitApp /\ [][NextApp]_vars

\* main() of eth.py and abstract.py, and fetch_via_logs, each run from its
\* start over the modelled chain
InitPipeline ==
    \/ MainInit
    \/ LocIdle /\ ScanIdle /\ LedgerIdle /\ AppRunInit /\ WebIdle
NextPipeline ==
    \/ LocProbe /\ UNCHANGED <<scanVars, ledVars, appVars, webVars>>
    \/ LocReturn /\ UNCHANGED <<scanVars, ledVars, appVars, webVars>>
    \/ MainBeginScan /\ UNCHANGED <<locVars, ledVars, appVars, webVars>>
    \/ ScanIssue /\ UNCHANGED <<locVars, ledVars, appVars, webVars>>
    \/ ScanReturn /\ UNCHANGED <<locVars, ledVars, appVars, webVars>>
    \/ ScanSuccess /\ UNCHANGED <<locVars, ledVars, appVars, webVars>>
    \/ ScanCaught /\ UNCHANGED <<locVars, ledVars, appVars, webVars>>
    \/ ScanRaise /\ UNCHANGED <<locVars, ledVars, appVars, webVars>>
    \/ MainBeginReplay /\ UNCHANGED <<locVars, scanVars, appVars, webVars>>
    \/ MainApply /\ UNCHANGED <<locVars, scanVars, appVars, webVars>>
    \/ MainFinish /\ UNCHANGED <<locVars, scanVars, appVars, webVars>>
    \/ AppFetch /\ UNCHANGED <<locVars, scanVars, ledVars, webVars>>
    \/ AppFetchRaise /\ UNCHANGED <<locVars, scanVars, ledVars, webVars>>
    \/ AppRunEvent /\ UNCHANGED <<locVars, scanVars, ledVars, webVars>>
    \/ AppNextChunk /\ UNCHANGED <<locVars, scanVars, ledVars, webVars>>
    \/ AppReturn /\ UNCHANGED <<locVars, scanVars, ledVars, webVars>>
SpecPipeline == InitPipeline /\ [][NextPipeline]_vars

\* fetch_my_tokens from its entry, with fetch_via_logs as its fallback
NextTokens ==
    \/ EnumBalance /\ UNCHANGED <<locVars, scanVars, ledVars, claimVars>>
    \/ EnumToken /\ UNCHANGED <<locVars, scanVars, ledVars, claimVars>>
    \/ EnumReturn /\ UNCHANGED <<locVars, scanVars, ledVars, claimVars>>
    \/ EnumFail /\ UNCHANGED <<locVars, scanVars, ledVars, claimVars>>
    \/ AppFetch /\ UNCHANGED <<locVars, scanVars, ledVars, webVars>>
    \/ AppFetchRaise /\ UNCHANGED <<locVars, scanVars, ledVars, webVars>>
    \/ AppRunEvent /\ UNCHANGED <<locVars, scanVars, ledVars, webVars>>
    \/ AppNextChunk /\ UNCHANGED <<locVars, scanVars, ledVars, webVars>>
    \/ AppReturn /\ UNCHANGED <<locVars, scanVars, ledVars, webVars>>
    \/ TokLogsReturn /\ UNCHANGED <<locVars, scanVars, ledVars, claimVars>>
    \/ TokLogsRaise /\ UNCHANGED <<locVars, scanVars, ledVars, claimVars>>
InitTokens == LocIdle /\ ScanIdle /\ LedgerIdle /\ TokInit /\ ClaimIdle
SpecTokens == InitTokens /\ [][NextTokens]_vars

\* claim_points requests served concurrently
NextClaim ==
    \/ \E r \in Requests : ClaimStart(r) /\ UNCHANGED <<locVars, scanVars, ledVars, appVars, tokVars>>
    \/ \E r \in Requests : ClaimReject(r) /\ UNCHANGED <<locVars, scanVars, ledVars, appVars, tokVars>>
    \/ \E r \in Requests : ClaimSelectClaims(r) /\ UNCHANGED <<locVars, scanVars, ledVars, appVars, tokVars>>
    \/ \E r \in Requests : ClaimSelectPoints(r) /\ UNCHANGED <<locVars, scanVars, ledVars, appVars, tokVars>>
    \/ \E r \in Requests : ClaimUpsertPoints(r) /\ UNCHANGED <<locVars, scanVars, ledVars, appVars, tokVars>>
    \/ \E r \in Requests : ClaimUpsertClaims(r) /\ UNCHANGED <<locVars, scanVars, ledVars, appVars, tokVars>>
    \/ \E r \in Requests : ClaimUpsertClaimsFail(r) /\ UNCHANGED <<locVars, scanVars, ledVars, appVars, tokVars>>
    \/ \E r \in Requests : ClaimRaise(r) /\ UNCHANGED <<locVars, scanVars, ledVars, appVars, tokVars>>
InitClaim == LocIdle /\ ScanIdle /\ LedgerIdle /\ AppIdle /\ WebIdle
SpecClaim == InitClaim /\ [][NextClaim]_vars

\* =========================================================================
\* properties
\* =========================================================================
Terminated == spc \in {"done", "raised"}
\* a get_logs call has just ended in o
Replied(o) == spc = "await" /\ spc' # "await" /\ outcome' = o

\* C1 (SpecScan): when fetch_logs_in_chunks returns, the list it returns is
\* exactly what one unthrottled query over [start, end] returns: every log of
\* the interval once, in order, whatever failures were injected on the way.
ScanCoverage == spc = "done" => logs = GetLogs(start, end, TRANSFER_SIG)
\* a scan that returned after a size-limit failure, in more than one batch
ScanCoverageWitness ==
    /\ spc = "done"
    /\ "too_large" \in replies
    /\ query[1] > start
    /\ Len(logs) >= 3

\* C3 (SpecLocate): with code absent below d and present from d to the upper
\* bound, find_deployment_block returns d.
DeploymentFound ==
    \A d \in 0 .. high : (lpc = "found" /\ codeAt = d .. high) => lo = d
\* a search that returned after at least two probes, code appearing at 3
DeploymentFoundWitness ==
    /\ lpc = "found"
    /\ high >= 5
    /\ codeAt = 3 .. high
    /\ nq >= 2

\* C4 (SpecScan): a size-limit failure sets chunk to max(chunk // 2, 1), leaves
\* the cursor and the accumulated list alone and does not reach the caller;
\* the next query starts at the same cursor and spans the halved chunk
\* (clipped at end).
TooLargeHandled ==
    /\ [][Replied("too_large") =>
            /\ chunk' = Max(chunk \div 2, 1)
            /\ current' = current
            /\ logs' = logs
            /\ spc' = "loop"]_vars
    /\ [][(spc = "loop" /\ outcome = "too_large" /\ spc' # "loop") =>
            /\ spc' = "await"
            /\ query'[1] = query[1]
            /\ query'[2] = Min(query[1] + chunk - 1, end)]_vars
\* the retry of a 1-block query at the floor
TooLargeWitness ==
    /\ spc = "await"
    /\ outcome = "too_large"
    /\ chunk = 1
    /\ query = <<current, current>>

FatalNeverRetried ==
    /\ [][(Replied("rpc_other") \/ Replied("other")) => spc' = "raised"]_vars
    /\ [][spc = "raised" => (spc' = "raised" /\ query' = query)]_vars

\* C7 (SpecScanFair): if every query ends in the size-limit failure, the scan
\* eventually ends.
ChunkFloorTerminates == <>(Terminated \/ ~(replies \subseteq {"too_large"}))

\* C8 (SpecScanFair): if every query of eth.py fails transiently, the scan
\* eventually ends.
BoundedTransientRetry ==
    variant = "eth" => <>(Terminated \/ ~(replies \subseteq {"transient"}))

\* C2 (SpecLedger): after every event application, token_owner[t] = a exactly
\* when t is in holders[a], for every tracked token and every address.
LedgerConsistent ==
    \A t \in DOMAIN token_owner : \A a \in Addresses :
        (token_owner[t] = a) <=> (t \in holders[a])

\* the log the replay loop has just consumed
Applied == rpc = "replay" /\ rpc' = "replay" /\ Len(replayed') = Len(replayed) + 1
LastFrom == AddrOf(replayed'[Len(replayed')].topics[2])
LastTo == AddrOf(replayed'[Len(replayed')].topics[3])
LastId == TokenOf(replayed'[Len(replayed')].topics[4])

\* C9 (SpecLedger): a Transfer of a token that is untracked (a mint) or recorded
\* as owned by the sender leaves the token with the receiver alone; after
\* mint(zero -> 1, 7) the holder count is 1, and after Transfer(1 -> 2, 7) on top
\* address 1 holds nothing, address 2 holds [7] and the holder list is [2].
MintTransferCorrect ==
    /\ [][(Applied /\ ((LastId \notin DOMAIN token_owner /\ LastFrom = ZERO)
                       \/ OwnerIs(token_owner, LastId, LastFrom))) =>
            /\ LastId \in holders'[LastTo]
            /\ \A a \in Addresses \ {LastTo} : LastId \notin holders'[a]
            /\ token_owner'[LastId] = LastTo]_vars
    /\ [](replayed = << TransferLog(0, 0, ZERO, 1, 7) >> =>
            Sorted(holders[1]) = << 7 >> /\ Cardinality(Result(holders)) = 1)
    /\ [](replayed = << TransferLog(0, 0, ZERO, 1, 7), TransferLog(0, 0, 1, 2, 7) >> =>
            /\ Sorted(holders[1]) = << >>
            /\ Sorted(holders[2]) = << 7 >>
            /\ Sorted(Result(holders)) = << 2 >>)

\* the single-transfer rule of fetch_via_logs applied to ft, ft+1, .., tt in turn
RECURSIVE EachSingly(_, _, _, _, _, _)
EachSingly(set, own, ft, tt, fa, ta) ==
    IF ft > tt THEN set
    ELSE EachSingly(AfterTransfer(set, own, fa, ta, ft), own, ft + 1, tt, fa, ta)

\* C10 (SpecApp): a ConsecutiveTransfer log changes the owner's set as the
\* Transfer rule applied to every id of [fromTokenId, toTokenId] does; a batch
\* 10..12 from zero to the owner makes the returned list [10, 11, 12], and a
\* batch from the owner removes exactly the ids of its range.
BatchExpansion ==
    [][(Len(ev'.topics) = 4 /\ ev'.topics[1] = CONS_SIG) =>
         LET ft == TokenOf(ev'.topics[2])
             tt == TokenOf(ev'.topics[3])
             fa == AddrOf(ev'.topics[4])
             ta == AddrOf(ev'.data)
         IN /\ myset' = EachSingly(myset, owner, ft, tt, fa, ta)
            /\ (myset = {} /\ ft = 10 /\ tt = 12 /\ fa = ZERO /\ ta = owner /\ owner # ZERO)
                  => Sorted(myset') = << 10, 11, 12 >>
            /\ fa = owner => myset' = myset \ (ft .. tt)]_vars
\* the owner's set after the batch 10..12 minted to the owner
BatchExpansionWitness ==
    /\ Len(ev.topics) = 4
    /\ ev.topics[1] = CONS_SIG
    /\ TokenOf(ev.topics[2]) = 10
    /\ TokenOf(ev.topics[3]) = 12
    /\ AddrOf(ev.topics[4]) = ZERO
    /\ AddrOf(ev.data) = owner
    /\ owner # ZERO
    /\ myset = {10, 11, 12}

\* C15 (SpecScan): in eth.py the chunk stays within 1 .. INITIAL_CHUNK in every
\* state of the scan, and a successful query sets it to
\* min(2 * chunk, INITIAL_CHUNK).
ChunkBounded ==
    /\ []((variant = "eth" /\ spc # "idle") =>
            (1 <= chunk /\ chunk <= INITIAL_CHUNK))
    /\ [][(Replied("ok") /\ variant = "eth") =>
            chunk' = Min(2 * chunk, INITIAL_CHUNK)]_vars
\* eth.py back at the maximum after a success, having been one halving below
ChunkBoundedWitness ==
    /\ variant = "eth"
    /\ spc = "loop"
    /\ outcome = "ok"
    /\ "too_large" \in replies
    /\ chunk = INITIAL_CHUNK
    /\ Len(logs) >= 1

\* position of a log on the chain
Before(l1, l2) ==
    \/ l1.blockNumber < l2.blockNumber
    \/ l1.blockNumber = l2.blockNumber /\ l1.logIndex < l2.logIndex

\* C16 (SpecScan): the list the scanner accumulates is ascending in
\* (blockNumber, logIndex), and every log a success appends lies in a block
\* strictly above every log appended before it, whatever failures and chunk
\* changes came between.
OrderPreserved ==
    /\ [](\A i \in 1 .. Len(logs) : \A j \in 1 .. Len(logs) :
            i < j => Before(logs[i], logs[j]))
    /\ [][Replied("ok") =>
            \A i \in 1 .. Len(logs) : \A j \in (Len(logs) + 1) .. Len(logs') :
                logs[i].blockNumber < logs'[j].blockNumber]_vars
\* a returned list built from several batches, with failures between them
OrderPreservedWitness ==
    /\ spc = "done"
    /\ Failures \cap replies # {}
    /\ Len(logs) >= 4
    /\ query[1] > start
    /\ chunk < InitialChunk(variant)

\* C18 (SpecScanFair): a size-limit failure never takes the chunk below 1 and
\* leaves a chunk of 1 at 1; with the chunk at 1 the query sent is
\* [current, current]; and a scan of a non-empty interval that meets nothing but
\* successes and size-limit failures, none of them on a 1-block query,
\* returns with the cursor at end + 1.
FloorProgress ==
    /\ [](spc # "idle" => chunk >= 1)
    /\ [][Replied("too_large") =>
            (chunk' >= 1 /\ (chunk <= 2 => chunk' = 1))]_vars
    /\ [][(spc = "loop" /\ chunk = 1 /\ spc' = "await") =>
            query' = <<current, current>>]_vars
    /\ (start <= end =>
          <>(\/ spc = "done" /\ current = end + 1
             \/ ~(replies \subseteq {"ok", "too_large"})
             \/ spc = "loop" /\ outcome = "too_large" /\ query[1] = query[2]))
\* abstract.py returning after its chunk was driven to 1 and the rest of the
\* interval was read block by block
FloorProgressWitness ==
    /\ variant = "abstract"
    /\ spc = "done"
    /\ chunk = 1
    /\ replies = {"ok", "too_large"}
    /\ start + 2 <= end
    /\ current = end + 1

RECURSIVE CeilLog2(_)
CeilLog2(n) == IF n <= 1 THEN 0 ELSE 1 + CeilLog2((n + 1) \div 2)

\* C19 (SpecLocateFair): for every upper bound and every oracle, monotone or
\* not, find_deployment_block keeps 0 <= lo <= hi <= upper bound, each iteration
\* strictly shrinks hi - lo, the number of get_code queries stays within
\* ceil(log2(upper bound + 1)), and the search returns, with lo = hi.
SearchTerminates ==
    /\ [](lpc # "idle" => (0 <= lo /\ lo <= hi /\ hi <= high))
    /\ [](lpc # "idle" => nq <= CeilLog2(high + 1))
    /\ [][nq' = nq + 1 => hi' - lo' < hi - lo]_vars
    /\ [](lpc = "found" => lo = hi)
    /\ <>(lpc = "found")
\* a search over a non-monotone oracle that returned after the most queries
\* its bound allows
SearchTerminatesWitness ==
    /\ lpc = "found"
    /\ high = MaxHigh
    /\ nq = CeilLog2(high + 1)
    /\ \E a \in codeAt : \E b \in (0 .. high) \ codeAt : a < b

\* C12 (SpecLedger): the holder list and the count main() writes leave the
\* zero address out, also when holders[zero] is not empty.
ZeroNeverHolder ==
    rpc = "done" =>
        /\ \A i \in 1 .. Len(files[1]) : files[1][i] # ZERO
        /\ files[2] = Cardinality(Result(holders) \ {ZERO})

\* the replay loop has just taken a Transfer log whose topics are not 4 words
TookShort ==
    /\ rpc = "replay"
    /\ Len(replayed') = Len(replayed) + 1
    /\ Len(replayed'[Len(replayed')].topics) # 4

\* C13 (SpecLedger): a Transfer log with the wrong number of topic words is
\* dropped: the replay goes on to the next log and the ledger is as it was.
MalformedDropped ==
    [][TookShort =>
         /\ rpc' = "replay"
         /\ token_owner' = token_owner
         /\ holders' = holders]_vars

\* C20 (SpecLedger): a Transfer whose from is neither the zero address nor the
\* recorded owner of the token takes the token out of no holder set, sets
\* token_owner[token] to `to` and adds the token to holders[to]; the owner
\* recorded before, if any, still lists the token and is still a holder.
SenderMismatch ==
    [][(Applied /\ LastFrom # ZERO /\ ~OwnerIs(token_owner, LastId, LastFrom)) =>
         /\ \A a \in Addresses : LastId \in holders[a] => LastId \in holders'[a]
         /\ token_owner'[LastId] = LastTo
         /\ LastId \in holders'[LastTo]
         /\ LastId \in DOMAIN token_owner =>
              /\ LastId \in holders'[token_owner[LastId]]
              /\ token_owner[LastId] \in Result(holders')]_vars
\* after a transfer from an address that was not the recorded owner, the token
\* is listed under its new owner and still under another address
SenderMismatchWitness ==
    /\ rpc = "replay"
    /\ Len(replayed) >= 2
    /\ LET last == replayed[Len(replayed)]
           frm == AddrOf(last.topics[2])
           to  == AddrOf(last.topics[3])
           tid == TokenOf(last.topics[4])
       IN /\ frm # ZERO
          /\ token_owner[tid] = to
          /\ tid \in holders[to]
          /\ \E a \in Addresses \ {ZERO, frm, to} : tid \in holders[a]

\* C11 (SpecPipeline): over the chain whose blocks 1..3 hold Transfer(zero->1,
\* id 1), Transfer(1->2, id 1) and the batch of ids 2..4 from zero to 3, main()
\* scanning from block 0 or 1 to block 3 writes the holders <<2, 3>> and the
\* count 2 with holders[2] = {1} and holders[3] = {2, 3, 4}, and fetch_via_logs
\* returns {1} for owner 2 and {2, 3, 4} for owner 3.
EndToEndScenario ==
    /\ (rpc = "done" /\ end = 3 /\ start <= 1) =>
          /\ files = << <<2, 3>>, 2 >>
          /\ holders[2] = {1}
          /\ holders[3] = {2, 3, 4}
    /\ (apc = "returned" /\ alatest = 3) =>
          /\ owner = 2 => myset = {1}
          /\ owner = 3 => myset = {2, 3, 4}

\* C14 (SpecPipeline): a scan that ended with an exception is followed by no
\* replay and no written file; the replay starts, and the files are written,
\* only after the scan returned with the cursor past end, the files being
\* computed from the logs of the whole of [start, end]; and fetch_via_logs
\* returns only with every chunk of [0, latest] fetched and folded in.
NoPartialFinal ==
    /\ spc = "raised" => (rpc = "idle" /\ files = << >>)
    /\ rpc # "idle" => (spc = "done" /\ current > end)
    /\ files # << >> =>
          /\ rpc = "done"
          /\ replayed = GetLogs(start, end, TRANSFER_SIG)
          /\ files = WrittenFiles(holders)
    /\ apc = "returned" =>
          /\ afrm > alatest
          /\ myset = FoldLogs({}, owner, GetAllLogs(0, alatest))
\* main() dead of a scan that had already fetched part of the interval
NoPartialFinalWitness ==
    /\ spc = "raised"
    /\ Len(logs) >= 1
    /\ current > start
    /\ current <= end
    /\ files = << >>

\* a list of 4-topic Transfer logs in which every transfer that is not a mint
\* comes from the token's owner at that point
RECURSIVE ValidHistory(_, _)
ValidHistory(own, seq) ==
    IF seq = << >> THEN TRUE
    ELSE LET log == Head(seq)
             frm == AddrOf(log.topics[2])
             to  == AddrOf(log.topics[3])
             tid == TokenOf(log.topics[4])
         IN /\ Len(log.topics) = 4
            /\ (frm = ZERO \/ OwnerIs(own, tid, frm))
            /\ ValidHistory(SetOwner(own, tid, to), Tail(seq))

\* C23 (SpecLedger): on every valid ownership history and for every address o,
\* the set fetch_via_logs computes for o is holders[o] of the replay loop of
\* main().
PerOwnerAgrees ==
    (rpc # "crashed" /\ ValidHistory(<< >>, replayed)) =>
        \A o \in Addresses : FoldLogs({}, o, replayed) = holders[o]

\* C24 (SpecLedger): applying a Transfer log of token t leaves token_owner at
\* every other token, and the membership of every other token in every holder
\* set, as they were, and modifies no holder set other than holders[from] and
\* holders[to].
ReplayFrame ==
    [][Applied =>
         /\ DOMAIN token_owner' = DOMAIN token_owner \cup {LastId}
         /\ \A t \in DOMAIN token_owner :
              t # LastId => token_owner'[t] = token_owner[t]
         /\ \A a \in Addresses :
              /\ holders'[a] \ {LastId} = holders[a] \ {LastId}
              /\ a \notin {LastFrom, LastTo} => holders'[a] = holders[a]]_vars
\* a log of one token applied while its receiver held the other token, which
\* it still holds
ReplayFrameWitness ==
    /\ rpc = "replay"
    /\ Len(replayed) = 2
    /\ LET last == replayed[2]
           to  == AddrOf(last.topics[3])
           tid == TokenOf(last.topics[4])
       IN /\ to # ZERO
          /\ OwnerIs(token_owner, tid, to)
          /\ tid \in holders[to]
          /\ \E t \in Tokens \ {tid} :
               /\ t \in holders[to]
               /\ OwnerIs(token_owner, t, to)

\* C25 (SpecLocate): find_deployment_block never asks for the code at the upper
\* bound itself; with no code at any height it returns the upper bound, as it
\* does when code first appears at the upper bound; and what it returns lies in
\* [0, upper bound].
NoCodeReturnsUpper ==
    /\ [][nq' = nq + 1 => Mid(lo, hi) < high]_vars
    /\ [](lpc = "found" =>
            /\ codeAt = {} => lo = high
            /\ codeAt = {high} => lo = high
            /\ 0 <= lo /\ lo <= high)
\* a search that found no code anywhere and returned the upper bound
NoCodeReturnsUpperWitness ==
    /\ lpc = "found"
    /\ codeAt = {}
    /\ high >= 4
    /\ nq >= 2
    /\ lo = high

\* the ledger after the logs of seq, replayed from (own, hold)
RECURSIVE ReplayAll(_, _, _)
ReplayAll(own, hold, seq) ==
    IF seq = << >> THEN << own, hold >>
    ELSE LET log == Head(seq)
             frm == AddrOf(log.topics[2])
             to  == AddrOf(log.topics[3])
             tid == TokenOf(log.topics[4])
         IN ReplayAll(SetOwner(own, tid, to),
                      Added(Discarded(own, hold, frm, tid), to, tid),
                      Tail(seq))

\* C21 (SpecPipeline): when main() took its start from find_deployment_block,
\* whatever the oracle, the ledger it ends with and the files it writes are
\* those of a scan of [0, latest].
LocatorHarmless ==
    (rpc = "done" /\ lpc = "found") =>
        LET full == ReplayAll(<< >>, [a \in Addresses |-> {}],
                              GetLogs(0, end, TRANSFER_SIG))
        IN /\ token_owner = full[1]
           /\ holders = full[2]
           /\ files = WrittenFiles(full[2])

\* fetch_via_enumeration is running
Enumerating == fpc \in {"balance", "index"}

\* C22 (SpecTokens): when the enumeration succeeds fetch_my_tokens returns its
\* list and no log query is issued, then or later; when it fails the log
\* replay is run from block 0 and its sorted result is returned; and
\* fetch_my_tokens raises only when the log replay raised after the
\* enumeration had failed.
TokensFallback ==
    /\ [][(Enumerating /\ fpc' = "returned") =>
            (apc' = "idle" /\ fret' = Enumerated(owner, alatest))]_vars
    /\ [][(Enumerating /\ ~Enumerating' /\ fpc' # "returned") =>
            (fpc' = "logs" /\ apc' = "loop" /\ afrm' = 0 /\ myset' = {})]_vars
    /\ [][fpc = "returned" => apc' = apc]_vars
    /\ []((fpc = "returned" /\ apc # "idle") =>
            /\ apc = "returned"
            /\ myset = FoldLogs({}, owner, GetAllLogs(0, alatest))
            /\ fret = Sorted(myset))
    /\ [](fpc = "raised" => apc = "raised")
\* the log replay's answer returned for the owner of the batch, after an
\* enumeration that had failed
TokensFallbackWitness ==
    /\ fpc = "returned"
    /\ apc = "returned"
    /\ owner = 3
    /\ fret = <<2, 3, 4>>

\* C26 (SpecClaim): however the requests interleave, and with every database
\* call succeeding, a token adds its 10 points to the stored total at most
\* once within the cooldown, and no award is lost: the total never exceeds 10
\* per token claimed, and is 10 per row of token_claims once every request
\* has answered.
NoDoubleAward ==
    (\A r \in Requests : cpc[r] \notin {"r400", "r500"}) =>
        /\ points <= POINTS_PER_TOKEN *
                       Cardinality(UNION {ctokens[r] : r \in Requests})
        /\ (\A r \in Requests : cpc[r] \in Finished) =>
               points = POINTS_PER_TOKEN * Cardinality(token_claims)

\* C27 (SpecClaim): when a request that ran alone got a failure response, the
\* stored points total is what it was before the request.
FailureKeepsPoints ==
    \A r \in Requests :
        (cpc[r] \in Failed /\ \A q \in Requests \ {r} : cpc[q] = "idle") =>
            points = before[r]

====
